---- MODULE Spec2Model ----
(***************************************************************************)
(* State-machine model of scripts/import_gsm8k.py: main() loads a parquet  *)
(* file, pings Redis, turns every row with a question and an answer into a *)
(* test case, assembles the test set and writes it with SADD + SET.        *)
(***************************************************************************)
EXTENDS Integers, Sequences, FiniteSets, TLC

\* ------------------------------------------------------------------ bounds
MaxRows == 3     \* longest source file
MaxReruns == 1   \* times the script is run again in one behaviour
MaxClock == 1    \* datetime.utcnow() returns a tick in 0..MaxClock

Procs == {1, 2}

\* ------------------------------------------------------- configuration
TEST_SET_ID == "GSM8k"
TEST_SET_NAME == "GSM8k Benchmark"
TEST_SET_DESC == "Grade School Math 8k Test Set"
PARQUET_FILE == "/Users/klietus/Downloads/test-00000-of-00001.parquet"

\* ------------------------------------------------------------ input rows
NULL == "<None>"                 \* row.get(...) of an absent / null cell
Row(q, a) == [question |-> q, answer |-> a]
\* two complete rows, and rows whose question or answer is None or ""
Rows == {Row("Q0", "A0"), Row("Q2", "A2"), Row("Q1", NULL), Row("", "A1"), Row(NULL, "")}

RECURSIVE SeqsUpTo(_, _)
SeqsUpTo(S, n) ==
  IF n = 0 THEN {<<>>}
  ELSE LET shorter == SeqsUpTo(S, n - 1)
       IN shorter \cup {Append(s, x) : s \in {t \in shorter : Len(t) = n - 1}, x \in S}

Files == SeqsUpTo(Rows, MaxRows)

\* ------------------------------------------------------------ formatting
Digit(d) == <<"0", "1", "2", "3", "4", "5", "6", "7", "8", "9">>[d + 1]

RECURSIVE Str(_)
Str(n) == IF n < 10 THEN Digit(n) ELSE Str(n \div 10) \o Digit(n % 10)

IsoFormat(t) == "1970-01-01T00:00:" \o (IF t < 10 THEN "0" ELSE "") \o Str(t)

\* `not value`: None and the empty string are falsy
Falsy(v) == v = NULL \/ v = ""

Skipped(row) == Falsy(row.question) \/ Falsy(row.answer)

\* the display number taken without the + 1
TestCaseNameFromIndex(index, row) ==
  [id |-> TEST_SET_ID \o "-T" \o Str(index),
   name |-> "GSM8k #" \o Str(index),
   prompt |-> row.question,
   expectedActivations |-> <<>>,
   expectedResponse |-> row.answer]

TestCase(index, row) ==
  [id |-> TEST_SET_ID \o "-T" \o Str(index),
   name |-> "GSM8k #" \o Str(index + 1),
   prompt |-> row.question,
   expectedActivations |-> <<>>,
   expectedResponse |-> row.answer]

TestSet(ts, t1, t2) ==
  [id |-> TEST_SET_ID,
   name |-> TEST_SET_NAME,
   description |-> TEST_SET_DESC,
   tests |-> ts,
   createdAt |-> IsoFormat(t1) \o "Z",
   updatedAt |-> IsoFormat(t2) \o "Z"]

NoTestSet == TestSet(<<>>, 0, 0)

\* json.dumps of a dict: the members in insertion order, as <<key, value>> pairs
DumpTest(t) ==
  <<<<"id", t.id>>, <<"name", t.name>>, <<"prompt", t.prompt>>,
    <<"expectedActivations", t.expectedActivations>>,
    <<"expectedResponse", t.expectedResponse>>>>

JsonDumps(s) ==
  <<<<"id", s.id>>, <<"name", s.name>>, <<"description", s.description>>,
    <<"tests", [j \in 1..Len(s.tests) |-> DumpTest(s.tests[j])]>>,
    <<"createdAt", s.createdAt>>, <<"updatedAt", s.updatedAt>>>>

\* ----------------------------------------------------------------- store
IndexKey == "sz:test_sets"
PayloadKey(id) == "sz:test_set:" \o id

SetKeys == {"sz:test_sets", "sz:other_sets"}
StringKeys == {"sz:test_set:GSM8k", "sz:test_set:Other"}

Nil == <<>>                      \* GET of a key that does not exist
OldPayload ==
  JsonDumps([TestSet(<<TestCase(9, [question |-> "old", answer |-> "old"])>>, 0, 0)
               EXCEPT !.name = "previous import"])
OtherPayload == <<<<"id", "Other">>>>

\* the index written as a plain value instead of added to
SAddOverwrite(s, m) == {m}

\* the member added to another key: the index is left as it was
SAddElsewhere(s, m) == s

\* SADD key member
SAdd(s, m) == s \cup {m}

\* SET ... NX: an existing value is kept
SetIfAbsent(old, new) == IF old = Nil THEN new ELSE old

\* SET key value: the value the key holds afterwards
SetValue(old, new) == new

StoreOf(index, payload) ==
  [sets |-> [k \in SetKeys |-> IF k = IndexKey THEN index ELSE {"x"}],
   strings |-> [k \in StringKeys |-> IF k = "sz:test_set:GSM8k" THEN payload ELSE OtherPayload]]

\* another test set only, or also an earlier import of this one
InitialStores == {StoreOf({"Other"}, Nil), StoreOf({"GSM8k", "Other"}, OldPayload)}

VARIABLES
  file,      \* the rows of PARQUET_FILE
  sets,      \* Redis: the set-typed keys
  strings,   \* Redis: the string-typed keys
  procs,     \* the processes that run main()
  runs,      \* times the script was run again
  pc,        \* where each process is in main()
  df,        \* the loaded DataFrame
  tests,     \* the list being built
  i,         \* rows consumed by the for loop
  test_set,  \* the assembled dict
  conn,      \* the socket of r: "none" or "open"
  out,       \* the lines printed
  calls,     \* the redis calls made in this run
  start      \* the store as it was when the run started

vars == <<file, sets, strings, procs, runs, pc, df, tests, i, test_set, conn, out,
          calls, start>>

Terminal == {"done", "aborted_load", "aborted_conn", "raised"}

Store == [sets |-> sets, strings |-> strings]

InitLocals ==
  /\ df = [p \in Procs |-> <<>>]
  /\ tests = [p \in Procs |-> <<>>]
  /\ i = [p \in Procs |-> 0]
  /\ test_set = [p \in Procs |-> NoTestSet]
  /\ conn = [p \in Procs |-> "none"]
  /\ out = [p \in Procs |-> <<>>]
  /\ calls = [p \in Procs |-> <<>>]

\* one process, any store a deployment can hold
Init ==
  /\ file \in Files
  /\ \E s \in InitialStores : sets = s.sets /\ strings = s.strings
  /\ procs = {1}
  /\ runs = 0
  /\ pc = [p \in Procs |-> IF p = 1 THEN "start" ELSE "idle"]
  /\ InitLocals
  /\ start = [p \in Procs |-> Store]

\* ---------------------------------------------------------------- main()
LoadOK(p) ==
  /\ pc[p] = "start"
  /\ df' = [df EXCEPT ![p] = file]
  /\ out' = [out EXCEPT ![p] = @ \o <<"Reading " \o PARQUET_FILE \o "...",
                                      "Loaded " \o Str(Len(file)) \o " rows.",
                                      "Columns: ['question', 'answer']">>]
  /\ pc' = [pc EXCEPT ![p] = "connect"]
  /\ UNCHANGED <<file, sets, strings, procs, runs, tests, i, test_set, conn, calls, start>>

\* the except branch without its return
LoadErrorFallsThrough == "connect"

\* the return of the except branch
AfterLoadError == "aborted_load"

LoadRaises(p) ==
  /\ pc[p] = "start"
  /\ out' = [out EXCEPT ![p] = @ \o <<"Reading " \o PARQUET_FILE \o "...",
                                      "Error reading parquet: e">>]
  /\ pc' = [pc EXCEPT ![p] = AfterLoadError]
  /\ UNCHANGED <<file, sets, strings, procs, runs, df, tests, i, test_set, conn, calls, start>>

PingOK(p) ==
  /\ pc[p] = "connect"
  /\ calls' = [calls EXCEPT ![p] = @ \o <<"Redis", "ping">>]
  /\ conn' = [conn EXCEPT ![p] = "open"]
  /\ out' = [out EXCEPT ![p] = Append(@, "Connected to Redis.")]
  /\ tests' = [tests EXCEPT ![p] = <<>>]
  /\ pc' = [pc EXCEPT ![p] = "transform"]
  /\ UNCHANGED <<file, sets, strings, procs, runs, df, i, test_set, start>>

\* the except branch without its return
ConnectionErrorFallsThrough == "transform"

\* the return of the except branch
AfterConnectionError == "aborted_conn"

PingConnectionError(p) ==
  /\ pc[p] = "connect"
  /\ calls' = [calls EXCEPT ![p] = @ \o <<"Redis", "ping">>]
  /\ out' = [out EXCEPT ![p] = Append(@, "Failed to connect to Redis.")]
  /\ pc' = [pc EXCEPT ![p] = AfterConnectionError]
  /\ UNCHANGED <<file, sets, strings, procs, runs, df, tests, i, test_set, conn, start>>

\* an exception of ping() that is no redis.ConnectionError is not caught
PingRaises(p) ==
  /\ pc[p] = "connect"
  /\ calls' = [calls EXCEPT ![p] = @ \o <<"Redis", "ping">>]
  /\ \E c \in {"none", "open"} : conn' = [conn EXCEPT ![p] = c]
  /\ pc' = [pc EXCEPT ![p] = "raised"]
  /\ UNCHANGED <<file, sets, strings, procs, runs, df, tests, i, test_set, out, start>>

\* a counter of the test cases built so far
RowIndexCompacted(p) == Len(tests[p])

\* the index df.iterrows() yields for the row at hand (a RangeIndex)
RowIndex(p) == i[p]

\* the for loop has rows left
RowsLeft(p) == i[p] < Len(df[p])

TransformRow(p) ==
  /\ pc[p] = "transform"
  /\ RowsLeft(p)
  /\ LET row == df[p][i[p] + 1]
     IN tests' = [tests EXCEPT ![p] =
                    IF Skipped(row) THEN @ ELSE Append(@, TestCase(RowIndex(p), row))]
  /\ i' = [i EXCEPT ![p] = @ + 1]
  /\ UNCHANGED <<file, sets, strings, procs, runs, pc, df, test_set, conn, out, calls, start>>

\* the dict literal calls datetime.utcnow() twice: t1, then t2, on a clock that
\* may or may not have advanced in between
Assemble(p) ==
  /\ pc[p] = "transform"
  /\ ~RowsLeft(p)
  /\ \E t1, t2 \in 0..MaxClock :
       /\ t1 <= t2
       /\ test_set' = [test_set EXCEPT ![p] = TestSet(tests[p], t1, t2)]
  /\ pc' = [pc EXCEPT ![p] = "sadd"]
  /\ UNCHANGED <<file, sets, strings, procs, runs, df, tests, i, conn, out, calls, start>>

SAddOK(p) ==
  /\ pc[p] = "sadd"
  /\ sets' = [sets EXCEPT ![IndexKey] = SAdd(@, TEST_SET_ID)]
  /\ calls' = [calls EXCEPT ![p] = Append(@, "sadd")]
  /\ pc' = [pc EXCEPT ![p] = "set"]
  /\ UNCHANGED <<file, strings, procs, runs, df, tests, i, test_set, conn, out, start>>

\* a redis call that raises: nothing is written, the exception leaves main()
SAddRaises(p) ==
  /\ pc[p] = "sadd"
  /\ calls' = [calls EXCEPT ![p] = Append(@, "sadd")]
  /\ \E c \in {"none", "open"} : conn' = [conn EXCEPT ![p] = c]
  /\ pc' = [pc EXCEPT ![p] = "raised"]
  /\ UNCHANGED <<file, sets, strings, procs, runs, df, tests, i, test_set, out, start>>

\* the number of rows loaded
ReportedRows(p) == Len(df[p])

\* the count of the final print
Reported(p) == Len(tests[p])

SetOK(p) ==
  /\ pc[p] = "set"
  /\ strings' = [strings EXCEPT ![PayloadKey(TEST_SET_ID)] =
                   SetValue(@, JsonDumps(test_set[p]))]
  /\ calls' = [calls EXCEPT ![p] = Append(@, "set")]
  /\ out' = [out EXCEPT ![p] = Append(@, "Successfully imported " \o Str(Reported(p))
                                          \o " tests into set '" \o TEST_SET_ID \o "'.")]
  /\ pc' = [pc EXCEPT ![p] = "done"]
  /\ UNCHANGED <<file, sets, procs, runs, df, tests, i, test_set, conn, start>>

SetRaises(p) ==
  /\ pc[p] = "set"
  /\ calls' = [calls EXCEPT ![p] = Append(@, "set")]
  /\ \E c \in {"none", "open"} : conn' = [conn EXCEPT ![p] = c]
  /\ pc' = [pc EXCEPT ![p] = "raised"]
  /\ UNCHANGED <<file, sets, strings, procs, runs, df, tests, i, test_set, out, start>>

\* the script is run again: a new process, new locals
Rerun(p) ==
  /\ pc[p] \in Terminal
  /\ runs < MaxReruns
  /\ runs' = runs + 1
  /\ pc' = [pc EXCEPT ![p] = "start"]
  /\ df' = [df EXCEPT ![p] = <<>>]
  /\ tests' = [tests EXCEPT ![p] = <<>>]
  /\ i' = [i EXCEPT ![p] = 0]
  /\ test_set' = [test_set EXCEPT ![p] = NoTestSet]
  /\ conn' = [conn EXCEPT ![p] = "none"]
  /\ out' = [out EXCEPT ![p] = <<>>]
  /\ calls' = [calls EXCEPT ![p] = <<>>]
  /\ start' = [start EXCEPT ![p] = Store]
  /\ UNCHANGED <<file, sets, strings, procs>>

Next ==
  \/ \E p \in procs : LoadOK(p)
  \/ \E p \in procs : LoadRaises(p)
  \/ \E p \in procs : PingOK(p)
  \/ \E p \in procs : PingConnectionError(p)
  \/ \E p \in procs : PingRaises(p)
  \/ \E p \in procs : TransformRow(p)
  \/ \E p \in procs : Assemble(p)
  \/ \E p \in procs : SAddOK(p)
  \/ \E p \in procs : SAddRaises(p)
  \/ \E p \in procs : SetOK(p)
  \/ \E p \in procs : SetRaises(p)
  \/ \E p \in procs : Rerun(p)

Spec == Init /\ [][Next]_vars

\* two processes started together on a store that holds neither key
\* the file of MaxRows rows in which complete rows and rows without an answer alternate
ConcFile == [k \in 1..MaxRows |-> IF k % 2 = 1 THEN Row("Q0", "A0") ELSE Row("Q1", NULL)]

InitConc ==
  /\ file = ConcFile
  /\ sets = StoreOf({}, Nil).sets
  /\ strings = StoreOf({}, Nil).strings
  /\ procs = Procs
  /\ runs = 0
  /\ pc = [p \in Procs |-> "start"]
  /\ InitLocals
  /\ start = [p \in Procs |-> Store]

SpecConc == InitConc /\ [][Next]_vars

\* ------------------------------------------------------------ properties
\* a row with a question and an answer, both non-empty
ValidRow(r) == r.question \notin {NULL, ""} /\ r.answer \notin {NULL, ""}

NumValid(d, n) == Cardinality({m \in 1..n : ValidRow(d[m])})

\* the position in d of its j-th valid row
NthValid(d, j) == CHOOSE k \in 1..Len(d) : ValidRow(d[k]) /\ NumValid(d, k) = j

ExpectedId(k) == "GSM8k-T" \o ToString(k - 1)
ExpectedName(k) == "GSM8k #" \o ToString(k)

\* the value of member `key` of a serialized object
JsonGet(obj, key) == obj[CHOOSE n \in 1..Len(obj) : obj[n][1] = key][2]

Printed(p, line) == \E n \in 1..Len(out[p]) : out[p][n] = line

Payload == strings["sz:test_set:GSM8k"]
Index == sets["sz:test_sets"]

\* C1: every row with a non-empty question and answer that the loop has passed
\* has produced exactly one test case, with id GSM8k-T{position}, name
\* GSM8k #{position + 1}, the row's question and answer, and no activations.
C1_ValidRowYieldsTestCase ==
  \A p \in procs : \A k \in 1..i[p] :
    ValidRow(df[p][k]) =>
      LET hits == {j \in 1..Len(tests[p]) : tests[p][j].id = ExpectedId(k)}
      IN /\ Cardinality(hits) = 1
         /\ \A j \in hits :
              tests[p][j] = [id |-> ExpectedId(k),
                             name |-> ExpectedName(k),
                             prompt |-> df[p][k].question,
                             expectedActivations |-> <<>>,
                             expectedResponse |-> df[p][k].answer]

C1_Witness ==
  \E p \in procs :
    /\ pc[p] = "done"
    /\ df[p] = <<Row("Q0", "A0"), Row("Q2", "A2"), Row("Q0", "A0")>>
    /\ Len(tests[p]) = 3

\* C2: a row whose question or answer is None or empty produces no test case
\* and no error, and the j-th test case carries the position of the j-th valid
\* row of the file (not j) in its id and its name.
C2_SkipKeepsNumbering ==
  \A p \in procs :
    /\ \A k \in 1..i[p] :
         ~ValidRow(df[p][k]) => \A j \in 1..Len(tests[p]) : tests[p][j].id # ExpectedId(k)
    /\ Len(tests[p]) = NumValid(df[p], i[p])
    /\ \A j \in 1..Len(tests[p]) :
         /\ tests[p][j].id = ExpectedId(NthValid(df[p], j))
         /\ tests[p][j].name = ExpectedName(NthValid(df[p], j))
    /\ pc[p] \in {"sadd", "set", "done"} => i[p] = Len(df[p])
    /\ pc[p] = "raised" => calls[p] # <<>> /\ calls[p][Len(calls[p])] \in {"ping", "sadd", "set"}

C2_Witness ==
  \E p \in procs :
    /\ pc[p] = "done"
    /\ df[p] = <<Row("Q0", "A0"), Row("Q1", NULL), Row("Q2", "A2")>>
    /\ tests[p] = <<[id |-> "GSM8k-T0", name |-> "GSM8k #1", prompt |-> "Q0",
                     expectedActivations |-> <<>>, expectedResponse |-> "A0"],
                    [id |-> "GSM8k-T2", name |-> "GSM8k #3", prompt |-> "Q2",
                     expectedActivations |-> <<>>, expectedResponse |-> "A2"]>>

\* C3: when a run has completed, the stored value's tests number the valid rows
\* of the file, follow the order of the rows, and the count printed is that
\* number.
C3_StoredTestsMatchRows ==
  \A p \in procs :
    pc[p] = "done" =>
      LET stored == JsonGet(Payload, "tests")
          n == NumValid(file, Len(file))
      IN /\ Len(stored) = n
         /\ \A j \in 1..Len(stored) :
              /\ JsonGet(stored[j], "id") = ExpectedId(NthValid(file, j))
              /\ JsonGet(stored[j], "prompt") = file[NthValid(file, j)].question
              /\ JsonGet(stored[j], "expectedResponse") = file[NthValid(file, j)].answer
         /\ \A a, b \in 1..Len(stored) : a < b => NthValid(file, a) < NthValid(file, b)
         /\ out[p][Len(out[p])] =
              "Successfully imported " \o ToString(n) \o " tests into set 'GSM8k'."

C3_Witness ==
  \E p \in procs :
    /\ pc[p] = "done"
    /\ Len(file) = 3
    /\ Len(JsonGet(Payload, "tests")) = 1
    /\ Printed(p, "Successfully imported 1 tests into set 'GSM8k'.")

\* C4: after every completed run the index holds GSM8k (once, and whatever it
\* held before), and the payload key holds this run's test set and nothing of
\* the value it held before.
C4_RerunReplaces ==
  \A p \in procs :
    pc[p] = "done" =>
      /\ Index = start[p].sets["sz:test_sets"] \cup {"GSM8k"}
      /\ Cardinality({m \in Index : m = "GSM8k"}) = 1
      /\ Len(Payload) = 6
      /\ JsonGet(Payload, "id") = "GSM8k"
      /\ JsonGet(Payload, "name") = "GSM8k Benchmark"
      /\ JsonGet(Payload, "description") = "Grade School Math 8k Test Set"
      /\ JsonGet(Payload, "createdAt") = test_set[p].createdAt
      /\ JsonGet(Payload, "updatedAt") = test_set[p].updatedAt
      /\ Len(JsonGet(Payload, "tests")) = Len(tests[p])
      /\ \A j \in 1..Len(tests[p]) :
           /\ Len(JsonGet(Payload, "tests")[j]) = 5
           /\ JsonGet(JsonGet(Payload, "tests")[j], "id") = tests[p][j].id
           /\ JsonGet(JsonGet(Payload, "tests")[j], "name") = tests[p][j].name
           /\ JsonGet(JsonGet(Payload, "tests")[j], "prompt") = tests[p][j].prompt
           /\ JsonGet(JsonGet(Payload, "tests")[j], "expectedActivations") = <<>>
           /\ JsonGet(JsonGet(Payload, "tests")[j], "expectedResponse")
                = tests[p][j].expectedResponse

\* a second run has completed over the value the first run stored
C4_Witness ==
  \E p \in procs :
    /\ pc[p] = "done"
    /\ runs = 1
    /\ "GSM8k" \in start[p].sets["sz:test_sets"]
    /\ start[p].strings["sz:test_set:GSM8k"] # Nil
    /\ JsonGet(start[p].strings["sz:test_set:GSM8k"], "name") = "GSM8k Benchmark"
    /\ JsonGet(start[p].strings["sz:test_set:GSM8k"], "createdAt") # test_set[p].createdAt

\* C5: a run that reports the connection failure has terminated without
\* entering the loop, has made no call but the ping, and has left the store
\* as it found it.
C5_ConnectionFailureAborts ==
  \A p \in procs :
    Printed(p, "Failed to connect to Redis.") =>
      /\ pc[p] = "aborted_conn"
      /\ i[p] = 0
      /\ tests[p] = <<>>
      /\ calls[p] = <<"Redis", "ping">>
      /\ Store = start[p]

C5_Witness ==
  \E p \in procs :
    /\ pc[p] = "aborted_conn"
    /\ Printed(p, "Failed to connect to Redis.")
    /\ Payload = OldPayload
    /\ Index = {"GSM8k", "Other"}

\* C6: a run whose load failed has terminated with no Redis client created, no
\* ping and no write, on an unchanged store; and a run that has made any Redis
\* call has loaded the file before.
C6_LoadFailureSkipsStore ==
  \A p \in procs :
    /\ Printed(p, "Error reading parquet: e") =>
         /\ pc[p] = "aborted_load"
         /\ calls[p] = <<>>
         /\ conn[p] = "none"
         /\ Store = start[p]
    /\ calls[p] # <<>> =>
         /\ df[p] = file
         /\ Len(out[p]) >= 3
         /\ out[p][2] = "Loaded " \o ToString(Len(file)) \o " rows."

C6_Witness ==
  \E p \in procs :
    /\ pc[p] = "aborted_load"
    /\ Printed(p, "Error reading parquet: e")
    /\ Payload = OldPayload

\* C7: at every point of a run, every key other than sz:test_sets and
\* sz:test_set:GSM8k holds what it held when the run started, and every member
\* sz:test_sets had then is still in it.
C7_OnlyTwoKeysChange ==
  \A p \in procs :
    /\ \A k \in SetKeys \ {"sz:test_sets"} : sets[k] = start[p].sets[k]
    /\ \A k \in StringKeys \ {"sz:test_set:GSM8k"} : strings[k] = start[p].strings[k]
    /\ \A m \in start[p].sets["sz:test_sets"] : m \in Index

C7_Witness ==
  \E p \in procs :
    /\ pc[p] = "done"
    /\ start[p].sets["sz:test_sets"] = {"Other"}
    /\ Index = {"GSM8k", "Other"}
    /\ Payload # start[p].strings["sz:test_set:GSM8k"]

\* C8: in the test set a completed run has assembled and stored, createdAt
\* equals updatedAt.
C8_TimestampsEqual ==
  \A p \in procs :
    pc[p] = "done" =>
      /\ test_set[p].createdAt = test_set[p].updatedAt
      /\ JsonGet(Payload, "createdAt") = JsonGet(Payload, "updatedAt")

\* C9: a run creates at most one Redis client, and a run that has ended by the
\* connection-failure return, by completing, or by an exception of one of its
\* two writes does not hold an open connection.
C9_ConnectionReleased ==
  \A p \in procs :
    /\ Cardinality({n \in 1..Len(calls[p]) : calls[p][n] = "Redis"}) <= 1
    /\ \/ pc[p] \in {"aborted_conn", "done"}
       \/ pc[p] = "raised" /\ calls[p][Len(calls[p])] \in {"sadd", "set"}
       => conn[p] # "open"

\* C10: from a store without the two keys, under any interleaving of runs: when
\* the payload key holds a value, GSM8k is in the index and the value is the
\* complete test set of the file; and a run that has issued a write has
\* finished its loop and assembled its test set before.
C10_PayloadImpliesIndexed ==
  /\ Payload # Nil =>
       /\ "GSM8k" \in Index
       /\ Len(Payload) = 6
       /\ JsonGet(Payload, "id") = "GSM8k"
       /\ \E t1, t2 \in 0..MaxClock :
            /\ JsonGet(Payload, "createdAt") = IsoFormat(t1) \o "Z"
            /\ JsonGet(Payload, "updatedAt") = IsoFormat(t2) \o "Z"
       /\ LET stored == JsonGet(Payload, "tests")
          IN /\ Len(stored) = NumValid(file, Len(file))
             /\ \A j \in 1..Len(stored) :
                  stored[j] = <<<<"id", ExpectedId(NthValid(file, j))>>,
                                <<"name", ExpectedName(NthValid(file, j))>>,
                                <<"prompt", file[NthValid(file, j)].question>>,
                                <<"expectedActivations", <<>>>>,
                                <<"expectedResponse", file[NthValid(file, j)].answer>>>>
  /\ \A p \in procs :
       (\E n \in 1..Len(calls[p]) : calls[p][n] \in {"sadd", "set"}) =>
         /\ df[p] = file
         /\ i[p] = Len(file)
         /\ test_set[p].tests = tests[p]
         /\ Len(tests[p]) = NumValid(file, Len(file))

\* one run stopped between its two writes while the other has stored its value
C10_Witness ==
  \E p, q \in procs :
    /\ p # q
    /\ pc[p] = "raised"
    /\ calls[p] = <<"Redis", "ping", "sadd", "set">>
    /\ pc[q] = "done"
    /\ Payload = JsonDumps(test_set[q])
    /\ test_set[q] # test_set[p]
====
